---------------------------- MODULE Spec2Model ----------------------------
(***************************************************************************)
(* ngrom: Genesis ROM conversion (SMD -> BIN) utility, src/ngrom.cpp.       *)
(*                                                                         *)
(* Byte buffers are sequences of integers 0..255.  A C offset p of a       *)
(* buffer is element p + 1 of the sequence (At).  Buffers have the sizes   *)
(* of the program: 512-byte headers, 16384-byte blocks.                    *)
(***************************************************************************)
EXTENDS Integers, Sequences, FiniteSets, TLC

VARIABLES
    pc,              \* control location of the program
    argsList,        \* filenameList: the input file names, in order
    checkOpt,        \* main: checkOpt
    fileAction,      \* main: fileAction / convertFiles: fileCollisionAction
    infoOpt,         \* main: argsParser.isSet(infoOption)
    exitCode,        \* main: the value returned by main (-1 while running)
    fmt,             \* checkFormats: fmt
    idx,             \* position in argsList of the file the range-for is at
    retval,          \* checkFormats / convertFiles: the value returned
    tmpBytes,        \* checkFormats: tmpBytes[NUM_HEADER_BYTES]
    tmpHeaderBytes,  \* showInfoList: tmpHeaderBytes[NUM_SMD_BLOCK_BYTES]
    tmpSMDBlock,     \* showInfoList: tmpSMDBlock[NUM_SMD_BLOCK_BYTES]
    likelyFmt,       \* showInfoList: likelyFmt
    okToContinue,    \* showInfoList / convertFiles: okToContinue
    smdBlockBytes,   \* convertFiles: smdBlockBytes[NUM_SMD_BLOCK_BYTES]
    binBlockBytes,   \* convertFiles: binBlockBytes[NUM_SMD_BLOCK_BYTES]
    numBlocks,       \* convertFiles: numBlocks
    blockI,          \* convertFiles: i of the block loop
    inPos,           \* read position of the open input stream
    openHandles,     \* the FILE streams that are open (fopen'ed, not fclose'd)
    outDir,          \* the output directory: output file name -> bytes or NoFile
    console,         \* what was written to std::cout / std::cerr, in order
    given            \* the argument drawn for a function checked on its own;
                     \* in a run of main, the option strings of the command line

vars == <<pc, argsList, checkOpt, fileAction, infoOpt, exitCode, fmt, idx,
          retval, tmpBytes, tmpHeaderBytes, tmpSMDBlock, likelyFmt,
          okToContinue, smdBlockBytes, binBlockBytes, numBlocks, blockI,
          inPos, openHandles, outDir, console, given>>

-----------------------------------------------------------------------------
(* Constants of the program *)

NUM_HEADER_BYTES == 512

NUM_SMD_BLOCK_BYTES == 16384

\* The bound of decodeSMDBlock's loop, "i < 8192".
HalfBlock == 8192

\* The offset of the BIN marker, "headerBytes + 0x100".
SegaOffset == 256

\* The marker "SEGA", as bytes.
SEGA == <<83, 69, 71, 65>>

\* enum RomFormat
UNK_FMT == "UNK_FMT"
SMD == "SMD"
BIN == "BIN"
RomFormat == {UNK_FMT, SMD, BIN}

\* enum FileCheckAction
UNSET == "UNSET"
STOP == "STOP"
WARN == "WARN"
SKIP == "SKIP"

-----------------------------------------------------------------------------
(* Byte buffers *)

Byte == 0..255

\* buf[p] of the C code.
At(buf, p) == buf[p + 1]

\* An n-byte array whose byte at offset p is f[p + 1].
Bytes(f, n) == SubSeq(f, 1, n)

\* memset(buf, 0, n) on a buffer of n bytes.
Zeros(n) == Bytes([p \in 1..n |-> 0], n)

\* memcmp(buf + off, lit, Len(lit)) == 0
MemEq(buf, off, lit) == SubSeq(buf, off + 1, off + Len(lit)) = lit


\* The content of a buffer that has not been written: no byte value.
Unwritten(n) == Bytes([p \in 1..n |-> -1], n)

\* A 16384-byte buffer that is declared and not initialised.
UnwrittenBlock == Unwritten(NUM_SMD_BLOCK_BYTES)

-----------------------------------------------------------------------------
(* getLikelyFormat *)

\* getLikelyFormat with the two tests in the other order.
getLikelyFormat_SigFirst(headerBytes) ==
    IF At(headerBytes, 8) = 170 /\ At(headerBytes, 9) = 187
    THEN SMD
    ELSE IF MemEq(headerBytes, SegaOffset, SEGA)
         THEN BIN
         ELSE UNK_FMT

getLikelyFormat(headerBytes) ==
    IF MemEq(headerBytes, SegaOffset, SEGA)
    THEN BIN
    ELSE IF At(headerBytes, 8) = 170 /\ At(headerBytes, 9) = 187
         THEN SMD
         ELSE UNK_FMT

-----------------------------------------------------------------------------
(* decodeSMDBlock *)

\* The destination offsets iteration i writes: oddByte and evenByte.
oddByte(i) == 1 + 2 * i
evenByte(i) == 0 + 2 * i

\* decodeSMDBlock whose loop stops one iteration early ("i < 8191").
decodeSMDBlock_ShortLoop(destBINBlock, srcSMDBlock) ==
    Bytes([k \in 1..Len(destBINBlock) |->
              LET j == k - 1
                  i == j \div 2
              IN  IF i < HalfBlock - 1
                  THEN IF j = oddByte(i)
                       THEN At(srcSMDBlock, i)
                       ELSE At(srcSMDBlock, i + HalfBlock)
                  ELSE destBINBlock[k]],
          Len(destBINBlock))

\* decodeSMDBlock with the two half-planes taken the other way round.
decodeSMDBlock_Swapped(destBINBlock, srcSMDBlock) ==
    Bytes([k \in 1..Len(destBINBlock) |->
              LET j == k - 1
                  i == j \div 2
              IN  IF i < HalfBlock
                  THEN IF j = oddByte(i)
                       THEN At(srcSMDBlock, i + HalfBlock)
                       ELSE At(srcSMDBlock, i)
                  ELSE destBINBlock[k]],
          Len(destBINBlock))

\* The destination block after the loop: offset j is written by iteration
\* j \div 2, if the loop has such an iteration, with srcSMDBlock[i] when j is
\* that iteration's oddByte and srcSMDBlock[i+8192] when it is its evenByte;
\* an offset no iteration writes keeps what the destination held.
decodeSMDBlock(destBINBlock, srcSMDBlock) ==
    Bytes([k \in 1..Len(destBINBlock) |->
              LET j == k - 1
                  i == j \div 2
              IN  IF i < HalfBlock
                  THEN IF j = oddByte(i)
                       THEN At(srcSMDBlock, i)
                       ELSE At(srcSMDBlock, i + HalfBlock)
                  ELSE destBINBlock[k]],
          Len(destBINBlock))

\* The inverse transform of the specification (BIN -> SMD), which the program
\* does not implement: smd[i] = bin[2i+1], smd[i+8192] = bin[2i].
encodeSMDBlock(binBlock) ==
    Bytes([k \in 1..Len(binBlock) |->
              LET i == k - 1
              IN  IF i < HalfBlock
                  THEN At(binBlock, 2 * i + 1)
                  ELSE At(binBlock, 2 * (i - HalfBlock))],
          Len(binBlock))

-----------------------------------------------------------------------------
(* The state outside a run of the program: nothing allocated, nothing open. *)

NoFile == "NoFile"

\* No command line.
NoArgs ==
    /\ argsList = <<>>
    /\ checkOpt = UNSET
    /\ fileAction = UNSET
    /\ infoOpt = FALSE
    /\ fmt = UNK_FMT
    /\ outDir = <<>>

\* No function of the program has been entered.
NoLocals ==
    /\ exitCode = -1
    /\ idx = 0
    /\ retval = TRUE
    /\ tmpBytes = <<>>
    /\ tmpSMDBlock = <<>>
    /\ okToContinue = TRUE
    /\ numBlocks = 0
    /\ blockI = 0
    /\ inPos = 0
    /\ openHandles = {}
    /\ console = <<>>

Idle == NoArgs /\ NoLocals

-----------------------------------------------------------------------------
(* getLikelyFormat on its own: every header of a family of 512-byte headers *)

\* Values for bytes 8 and 9 of a header: the two signature bytes and another.
SigBytes == {170, 187, 0}

\* Values for bytes 0x100..0x103: the marker, and near misses of it.
Markers == {SEGA, <<83, 69, 71, 66>>, <<84, 69, 71, 65>>, <<83, 65, 71, 69>>,
            <<115, 101, 103, 97>>, <<0, 0, 0, 0>>, <<170, 187, 170, 187>>}

\* Values for every other byte of the header.
Fills == {0, 170, 83}

\* The header with b8, b9 at offsets 8, 9, marker at 0x100 and fill elsewhere.
HeaderOf(b8, b9, marker, fill) ==
    Bytes([k \in 1..NUM_HEADER_BYTES |->
              LET p == k - 1
              IN  IF p = 8 THEN b8
                  ELSE IF p = 9 THEN b9
                  ELSE IF p >= SegaOffset /\ p < SegaOffset + 4
                       THEN marker[p - SegaOffset + 1]
                       ELSE fill],
          NUM_HEADER_BYTES)

InitDetect ==
    /\ Idle
    /\ pc = "detect"
    /\ \E b8 \in SigBytes, b9 \in SigBytes, m \in Markers, f \in Fills :
           tmpHeaderBytes = HeaderOf(b8, b9, m, f)
    /\ likelyFmt = UNK_FMT
    /\ smdBlockBytes = <<>>
    /\ binBlockBytes = <<>>
    /\ given = <<>>

Detect ==
    /\ pc = "detect"
    /\ likelyFmt' = getLikelyFormat(tmpHeaderBytes)
    /\ pc' = "detected"
    /\ UNCHANGED <<argsList, checkOpt, fileAction, infoOpt, exitCode, fmt, idx,
                   retval, tmpBytes, tmpHeaderBytes, tmpSMDBlock,
                   okToContinue, smdBlockBytes, binBlockBytes, numBlocks,
                   blockI, inPos, openHandles, outDir, console, given>>

SpecDetect == InitDetect /\ [][Detect]_vars

-----------------------------------------------------------------------------
(* decodeSMDBlock on its own: every block of a family of 16384-byte blocks, *)
(* taken as an SMD block (decoded, then encoded back) and as a BIN block    *)
(* (encoded, then decoded).                                                *)

\* The family's blocks: byte p is (a*p + b*(p \div 256)) % 256, a, b <= PatMax.
PatMax == 6

PatternBlock(a, b) ==
    Bytes([k \in 1..NUM_SMD_BLOCK_BYTES |->
              (a * (k - 1) + b * ((k - 1) \div 256)) % 256],
          NUM_SMD_BLOCK_BYTES)

InitCodec ==
    /\ Idle
    /\ tmpHeaderBytes = <<>>
    /\ likelyFmt = UNK_FMT
    /\ \E a \in 0..PatMax, b \in 0..PatMax, as \in {SMD, BIN} :
           /\ given = [block |-> PatternBlock(a, b), as |-> as]
           /\ pc = IF as = SMD THEN "decode" ELSE "encode"
           /\ smdBlockBytes = IF as = SMD THEN given.block ELSE <<>>
           /\ binBlockBytes = IF as = BIN THEN given.block ELSE <<>>

\* decodeSMDBlock(binBlockBytes, smdBlockBytes) into a destination of which
\* nothing is written yet.
CodecDecode ==
    /\ pc = "decode"
    /\ binBlockBytes' =
           decodeSMDBlock(UnwrittenBlock, smdBlockBytes)
    /\ pc' = IF given.as = SMD THEN "encode" ELSE "codec_done"
    /\ UNCHANGED <<argsList, checkOpt, fileAction, infoOpt, exitCode, fmt, idx,
                   retval, tmpBytes, tmpHeaderBytes, tmpSMDBlock, likelyFmt,
                   okToContinue, smdBlockBytes, numBlocks,
                   blockI, inPos, openHandles, outDir, console, given>>

\* The inverse transform, applied to binBlockBytes.
CodecEncode ==
    /\ pc = "encode"
    /\ smdBlockBytes' = encodeSMDBlock(binBlockBytes)
    /\ pc' = IF given.as = BIN THEN "decode" ELSE "codec_done"
    /\ UNCHANGED <<argsList, checkOpt, fileAction, infoOpt, exitCode, fmt, idx,
                   retval, tmpBytes, tmpHeaderBytes, tmpSMDBlock, likelyFmt,
                   okToContinue, binBlockBytes, numBlocks,
                   blockI, inPos, openHandles, outDir, console, given>>

SpecCodec == InitCodec /\ [][CodecDecode \/ CodecEncode]_vars


-----------------------------------------------------------------------------
(* The files of the input directory.  A file name is the sequence of its    *)
(* dot-separated parts: <<"one", "smd">> is one.smd.                        *)

\* The 512-byte header of an SMD container: 0xAA, 0xBB at offsets 8, 9.
SmdContainerHeader ==
    Bytes([k \in 1..NUM_HEADER_BYTES |->
              IF k - 1 = 8 THEN 170
              ELSE IF k - 1 = 9 THEN 187
              ELSE IF k - 1 = 1 THEN 3
              ELSE 0],
          NUM_HEADER_BYTES)

\* n bytes of block data: byte q is (3q + 5(q \div 256) + seed) % 256.
Payload(seed, n) ==
    Bytes([k \in 1..n |-> (3 * (k - 1) + 5 * ((k - 1) \div 256) + seed) % 256],
          n)

\* tiny.smd: 500 bytes, the start of an SMD header.
DataTiny == SubSeq(SmdContainerHeader, 1, 500)

\* stub.smd: an SMD header and 100 bytes of a first block.
DataStub == SmdContainerHeader \o Payload(11, 100)

\* short.smd: an SMD header and 600 bytes of a first block.
DataShort == SmdContainerHeader \o Payload(23, 600)

\* odd.smd: 16897 bytes, an SMD header, a block and one byte more.
DataOdd == SmdContainerHeader \o Payload(37, NUM_SMD_BLOCK_BYTES + 1)

\* one.smd, locked.smd: an SMD header and one block.
DataOne == SmdContainerHeader \o Payload(41, NUM_SMD_BLOCK_BYTES)

\* two.SMD: an SMD header and two blocks.
DataTwo == SmdContainerHeader \o Payload(53, 2 * NUM_SMD_BLOCK_BYTES)

\* rom.bin: 16896 flat bytes with "SEGA" at 0x100, and with 0xAA, 0xBB at
\* offsets 8, 9 as well.
DataRom ==
    Bytes([k \in 1..(NUM_HEADER_BYTES + NUM_SMD_BLOCK_BYTES) |->
              LET p == k - 1
              IN  IF p = 8 THEN 170
                  ELSE IF p = 9 THEN 187
                  ELSE IF p >= SegaOffset /\ p < SegaOffset + 4
                       THEN SEGA[p - SegaOffset + 1]
                       ELSE (7 * p + 1) % 256],
          NUM_HEADER_BYTES + NUM_SMD_BLOCK_BYTES)

\* junk.dat: 16896 bytes with neither the signature nor the marker.
DataJunk ==
    Bytes([k \in 1..(NUM_HEADER_BYTES + NUM_SMD_BLOCK_BYTES) |->
              (5 * (k - 1) + 2) % 256],
          NUM_HEADER_BYTES + NUM_SMD_BLOCK_BYTES)

gone == <<"gone", "smd">>
tiny == <<"tiny", "smd">>
stub == <<"stub", "smd">>
short == <<"short", "smd">>
odd == <<"odd", "smd">>
one == <<"one", "smd">>
two == <<"two", "SMD">>
locked == <<"locked", "smd">>
rom == <<"rom", "bin">>
junk == <<"junk", "dat">>

\* Whether the file exists (gone.smd does not).
Exists(name) == name # gone

\* Whether fopen(name, "r") succeeds (locked.smd exists and cannot be read).
Readable(name) == Exists(name) /\ name # locked

\* The bytes of an existing file.
Data(name) ==
    CASE name = tiny -> DataTiny
      [] name = stub -> DataStub
      [] name = short -> DataShort
      [] name = odd -> DataOdd
      [] name = one -> DataOne
      [] name = two -> DataTwo
      [] name = locked -> DataOne
      [] name = rom -> DataRom
      [] name = junk -> DataJunk

\* QFileInfo::size(): 0 for a file that does not exist.
FileSize(name) == IF Exists(name) THEN Len(Data(name)) ELSE 0

\* The longest list of input files.
MaxFiles == 2

\* The lists of 1..MaxFiles files out of names.
FileLists(names) == UNION {[1..n -> names] : n \in 1..MaxFiles}

-----------------------------------------------------------------------------
(* stdio *)

\* The stream fopen(name, mode) returns.
Handle(name, mode) == [file |-> name, mode |-> mode]

\* fread(buf, 1, n, stream) on a stream at offset pos of data: the bytes read
\* replace the start of buf, the rest of buf is kept.
FreadCount(data, pos, n) ==
    IF Len(data) - pos >= n THEN n
    ELSE IF Len(data) > pos THEN Len(data) - pos ELSE 0

Fread(buf, data, pos, n) ==
    SubSeq(data, pos + 1, pos + FreadCount(data, pos, n))
        \o SubSeq(buf, FreadCount(data, pos, n) + 1, Len(buf))

\* std::cout << / std::cerr <<
Say(fn, i, msg) == Append(console, [fn |-> fn, file |-> i, msg |-> msg])

-----------------------------------------------------------------------------
(* checkFormats *)

\* A 512-byte buffer after memset(buf, 0, NUM_HEADER_BYTES).
ZeroHeader == Zeros(NUM_HEADER_BYTES)

mainVars == <<argsList, checkOpt, fileAction, infoOpt, exitCode>>
infoVars == <<tmpHeaderBytes, tmpSMDBlock, likelyFmt>>
convVars == <<smdBlockBytes, binBlockBytes, numBlocks, blockI>>

\* bool retval = true; unsigned char tmpBytes[512]; memset(tmpBytes, 0, 512);
CheckFormatsEnter ==
    /\ pc = "cf_entry"
    /\ retval' = TRUE
    /\ tmpBytes' = ZeroHeader
    /\ idx' = 1
    /\ pc' = "cf_file"
    /\ UNCHANGED <<mainVars, infoVars, convVars, fmt, okToContinue, inPos,
                   openHandles, outDir, console, given>>

\* CheckVerdict without the SMD branch's test for the BIN marker.
CheckVerdict_NoSegaTest(f, buf) ==
    IF f = BIN
    THEN IF MemEq(buf, SegaOffset, SEGA) THEN "GOOD" ELSE "FAILED"
    ELSE IF At(buf, 8) # 170 \/ At(buf, 9) # 187
         THEN "FAILED"
         ELSE "GOOD"

\* The outcome of the tests on the 512 bytes read: "GOOD", or the failure.
CheckVerdict(f, buf) ==
    IF f = BIN
    THEN IF MemEq(buf, SegaOffset, SEGA) THEN "GOOD" ELSE "FAILED"
    ELSE IF At(buf, 8) # 170 \/ At(buf, 9) # 187
         THEN "FAILED"
         ELSE IF MemEq(buf, SegaOffset, SEGA)
              THEN "FAILED (appears to be BIN format)"
              ELSE "GOOD"

\* CheckOpen with a failed fopen returning false at once.
CheckOpen_StopsOnError ==
    /\ pc = "cf_file"
    /\ idx <= Len(argsList)
    /\ IF fmt = BIN \/ fmt = SMD
       THEN IF Readable(argsList[idx])
            THEN /\ openHandles' =
                        openHandles \cup {Handle(argsList[idx], "r")}
                 /\ inPos' = 0
                 /\ pc' = "cf_read"
                 /\ UNCHANGED <<retval, idx, console, tmpBytes>>
            ELSE /\ console' = Say("checkFormats", idx, "Failed to open file")
                 /\ retval' = FALSE
                 /\ pc' = "cf_ret"
                 /\ tmpBytes' = <<>>
                 /\ UNCHANGED <<idx, openHandles, inPos>>
       ELSE /\ console' = Say("checkFormats", idx, "not implemented")
            /\ retval' = FALSE
            /\ pc' = "cf_ret"
            /\ tmpBytes' = <<>>
            /\ UNCHANGED <<idx, openHandles, inPos>>
    /\ UNCHANGED <<mainVars, infoVars, convVars, fmt, okToContinue, outDir,
                   given>>

\* The head of the loop body: the branch on fmt, and fopen(filename, "r").
CheckOpen ==
    /\ pc = "cf_file"
    /\ idx <= Len(argsList)
    /\ IF fmt = BIN \/ fmt = SMD
       THEN IF Readable(argsList[idx])
            THEN /\ openHandles' =
                        openHandles \cup {Handle(argsList[idx], "r")}
                 /\ inPos' = 0
                 /\ pc' = "cf_read"
                 /\ UNCHANGED <<retval, idx, console, tmpBytes>>
            ELSE /\ console' = Say("checkFormats", idx, "Failed to open file")
                 /\ retval' = FALSE
                 /\ idx' = idx + 1
                 /\ UNCHANGED <<pc, openHandles, inPos, tmpBytes>>
       ELSE /\ console' = Say("checkFormats", idx, "not implemented")
            /\ retval' = FALSE
            /\ pc' = "cf_ret"
            /\ tmpBytes' = <<>>
            /\ UNCHANGED <<idx, openHandles, inPos>>
    /\ UNCHANGED <<mainVars, infoVars, convVars, fmt, okToContinue, outDir,
                   given>>

\* memset, fread of the header, the tests, fclose; then the next file.
CheckRead ==
    /\ pc = "cf_read"
    /\ LET data == Data(argsList[idx])
           numBytesRead == FreadCount(data, inPos, NUM_HEADER_BYTES)
           buf == Fread(ZeroHeader, data, inPos, NUM_HEADER_BYTES)
       IN  /\ tmpBytes' = buf
           /\ inPos' = inPos + numBytesRead
           /\ IF numBytesRead < NUM_HEADER_BYTES
              THEN /\ console' = Say("checkFormats", idx, "Incomplete read")
                   /\ retval' = FALSE
              ELSE /\ console' = Say("checkFormats", idx, CheckVerdict(fmt, buf))
                   /\ retval' = (retval /\ CheckVerdict(fmt, buf) = "GOOD")
    /\ openHandles' = openHandles \ {Handle(argsList[idx], "r")}
    /\ idx' = idx + 1
    /\ pc' = "cf_file"
    /\ UNCHANGED <<mainVars, infoVars, convVars, fmt, okToContinue, outDir,
                   given>>

\* The end of the list: return retval.
CheckReturn ==
    /\ pc = "cf_file"
    /\ idx > Len(argsList)
    /\ pc' = "cf_ret"
    /\ tmpBytes' = <<>>
    /\ UNCHANGED <<mainVars, infoVars, convVars, fmt, idx, retval,
                   okToContinue, inPos, openHandles, outDir, console, given>>

checkFormats == CheckFormatsEnter \/ CheckOpen \/ CheckRead \/ CheckReturn

\* The files checkFormats is given here.
CheckNames == {gone, tiny, junk, rom, one}

\* checkFormats(fmt, filenameList) is called.
InitCheck ==
    /\ pc = "cf_entry"
    /\ argsList \in FileLists(CheckNames)
    /\ fmt \in RomFormat
    /\ checkOpt = UNSET
    /\ fileAction = UNSET
    /\ infoOpt = FALSE
    /\ outDir = <<>>
    /\ NoLocals
    /\ tmpHeaderBytes = <<>>
    /\ likelyFmt = UNK_FMT
    /\ smdBlockBytes = <<>>
    /\ binBlockBytes = <<>>
    /\ given = <<>>

SpecCheck == InitCheck /\ [][checkFormats]_vars

-----------------------------------------------------------------------------
(* showInfoList *)

\* A 16384-byte buffer after memset(buf, 0, NUM_SMD_BLOCK_BYTES).
ZeroBlock == Zeros(NUM_SMD_BLOCK_BYTES)

\* What "std::cout << decodedChars" shows of a char array: the bytes before
\* the first zero byte.
CStr(chars) ==
    LET nul == {k \in 1..Len(chars) : chars[k] = 0}
    IN  IF nul = {}
        THEN chars
        ELSE SubSeq(chars, 1, (CHOOSE k \in nul : \A m \in nul : k <= m) - 1)

\* memset(decodedChars, 0, 50); memcpy(decodedChars, &header[off], len);
TextField(header, off, len) == CStr(SubSeq(header, off + 1, off + len))

HexDigit == <<"0", "1", "2", "3", "4", "5", "6", "7",
              "8", "9", "A", "B", "C", "D", "E", "F">>

\* snprintf "%02X" of each byte of header[off .. off+len).
HexField(header, off, len) ==
    [k \in 1..(2 * len) |->
        LET b == At(header, off + (k - 1) \div 2)
        IN  HexDigit[(IF k % 2 = 1 THEN b \div 16 ELSE b % 16) + 1]]

\* The software type: 'G' 'M' is a game, 'A' 'l' is educational.
SoftwareType(header) ==
    IF At(header, 384) = 71 /\ At(header, 385) = 77
    THEN "Game"
    ELSE IF At(header, 384) = 65 /\ At(header, 385) = 108
         THEN "Educational"
         ELSE <<At(header, 384), At(header, 385)>>

\* The lines showInfoList prints from tmpHeaderBytes, in order.
HeaderFields(header) ==
    [system       |-> TextField(header, 256, 16),
     copyright    |-> TextField(header, 272, 16),
     domestic     |-> TextField(header, 288, 48),
     overseas     |-> TextField(header, 336, 48),
     softwareType |-> SoftwareType(header),
     product      |-> TextField(header, 387, 11),
     checksum     |-> HexField(header, 398, 2),
     ioSupport    |-> TextField(header, 400, 16),
     romStart     |-> HexField(header, 416, 4),
     romEnd       |-> HexField(header, 420, 4),
     modem        |-> TextField(header, 444, 20),
     memo         |-> TextField(header, 456, 40),
     countries    |-> TextField(header, 496, 3)]

\* The least count of bytes of the first block with which showInfoList goes
\* on: "if (numBytesRead < NUM_HEADER_BYTES)" after the fread of the block.
InfoBlockMinBytes == NUM_HEADER_BYTES

\* The two buffers, cleared once before the loop.
ShowInfoListEnter ==
    /\ pc = "si_entry"
    /\ tmpHeaderBytes' = ZeroBlock
    /\ tmpSMDBlock' = ZeroBlock
    /\ idx' = 1
    /\ pc' = "si_file"
    /\ UNCHANGED <<mainVars, convVars, fmt, retval, tmpBytes, likelyFmt,
                   okToContinue, inPos, openHandles, outDir, console, given>>

\* fopen(filename, "r")
InfoOpen ==
    /\ pc = "si_file"
    /\ idx <= Len(argsList)
    /\ IF Readable(argsList[idx])
       THEN /\ openHandles' = openHandles \cup {Handle(argsList[idx], "r")}
            /\ inPos' = 0
            /\ pc' = "si_header"
            /\ UNCHANGED <<idx, console>>
       ELSE /\ console' = Say("showInfoList", idx, "Failed to open file")
            /\ idx' = idx + 1
            /\ UNCHANGED <<pc, openHandles, inPos>>
    /\ UNCHANGED <<mainVars, infoVars, convVars, fmt, retval, tmpBytes,
                   okToContinue, outDir, given>>

\* memset of tmpHeaderBytes, fread of the first 512 bytes, getLikelyFormat.
InfoHeader ==
    /\ pc = "si_header"
    /\ LET data == Data(argsList[idx])
           numBytesRead == FreadCount(data, inPos, NUM_HEADER_BYTES)
           buf == Fread(ZeroBlock, data, inPos, NUM_HEADER_BYTES)
       IN  /\ tmpHeaderBytes' = buf
           /\ inPos' = inPos + numBytesRead
           /\ IF numBytesRead < NUM_HEADER_BYTES
              THEN /\ console' = Say("showInfoList", idx, "Incomplete read")
                   /\ pc' = "si_close"
                   /\ UNCHANGED <<likelyFmt, okToContinue>>
              ELSE /\ likelyFmt' = getLikelyFormat(buf)
                   /\ IF getLikelyFormat(buf) = UNK_FMT
                      THEN /\ console' = Say("showInfoList", idx,
                                             "Unrecognized file format")
                           /\ okToContinue' = FALSE
                           /\ pc' = "si_close"
                      ELSE /\ okToContinue' = TRUE
                           /\ pc' = IF getLikelyFormat(buf) = SMD
                                    THEN "si_block" ELSE "si_print"
                           /\ UNCHANGED console
    /\ UNCHANGED <<mainVars, convVars, fmt, idx, retval, tmpBytes,
                   tmpSMDBlock, openHandles, outDir, given>>

\* SMD: fread of the first block into tmpSMDBlock, which is not cleared;
\* then memset of tmpHeaderBytes and decodeSMDBlock.
InfoBlock ==
    /\ pc = "si_block"
    /\ LET data == Data(argsList[idx])
           numBytesRead == FreadCount(data, inPos, NUM_SMD_BLOCK_BYTES)
           block == Fread(tmpSMDBlock, data, inPos, NUM_SMD_BLOCK_BYTES)
       IN  /\ tmpSMDBlock' = block
           /\ inPos' = inPos + numBytesRead
           /\ IF numBytesRead < InfoBlockMinBytes
              THEN /\ console' = Say("showInfoList", idx, "Incomplete read")
                   /\ okToContinue' = FALSE
                   /\ pc' = "si_close"
                   /\ UNCHANGED tmpHeaderBytes
              ELSE /\ tmpHeaderBytes' = decodeSMDBlock(ZeroBlock, block)
                   /\ pc' = "si_print"
                   /\ UNCHANGED <<console, okToContinue>>
    /\ UNCHANGED <<mainVars, convVars, fmt, idx, retval, tmpBytes, likelyFmt,
                   openHandles, outDir, given>>

\* if (okToContinue): the fields of tmpHeaderBytes are printed.
InfoPrint ==
    /\ pc = "si_print"
    /\ console' = Append(console, [fn |-> "showInfoList", file |-> idx,
                                   msg |-> "info",
                                   fields |-> HeaderFields(tmpHeaderBytes)])
    /\ pc' = "si_close"
    /\ UNCHANGED <<mainVars, infoVars, convVars, fmt, idx, retval, tmpBytes,
                   okToContinue, inPos, openHandles, outDir, given>>

\* fclose(inFile); then the next file.
InfoClose ==
    /\ pc = "si_close"
    /\ openHandles' = openHandles \ {Handle(argsList[idx], "r")}
    /\ idx' = idx + 1
    /\ pc' = "si_file"
    /\ UNCHANGED <<mainVars, infoVars, convVars, fmt, retval, tmpBytes,
                   okToContinue, inPos, outDir, console, given>>

\* The end of the list.
InfoReturn ==
    /\ pc = "si_file"
    /\ idx > Len(argsList)
    /\ pc' = "si_ret"
    /\ tmpHeaderBytes' = <<>>
    /\ tmpSMDBlock' = <<>>
    /\ UNCHANGED <<mainVars, convVars, fmt, idx, retval, tmpBytes, likelyFmt,
                   okToContinue, inPos, openHandles, outDir, console, given>>

showInfoList ==
    \/ ShowInfoListEnter
    \/ InfoOpen
    \/ InfoHeader
    \/ InfoBlock
    \/ InfoPrint
    \/ InfoClose
    \/ InfoReturn

\* The files showInfoList is given here.
InfoNames == {gone, tiny, junk, rom, stub, short, one}

\* showInfoList(filenameList) is called.
InitInfo ==
    /\ pc = "si_entry"
    /\ argsList \in FileLists(InfoNames)
    /\ fmt = UNK_FMT
    /\ checkOpt = UNSET
    /\ fileAction = UNSET
    /\ infoOpt = TRUE
    /\ outDir = <<>>
    /\ NoLocals
    /\ tmpHeaderBytes = <<>>
    /\ likelyFmt = UNK_FMT
    /\ smdBlockBytes = <<>>
    /\ binBlockBytes = <<>>
    /\ given = <<>>

SpecInfo == InitInfo /\ [][showInfoList]_vars

-----------------------------------------------------------------------------
(* convertFiles *)

\* QString::toLower() on the suffixes of the file names used here.
ToLower(str) ==
    CASE str = "SMD" -> "smd"
      [] str = "Smd" -> "smd"
      [] str = "BIN" -> "bin"
      [] str = "DAT" -> "dat"
      [] OTHER -> str

\* QFileInfo::suffix(): what follows the last dot, "" without a dot.
Suffix(name) == IF Len(name) >= 2 THEN name[Len(name)] ELSE ""

\* The output file name: the suffix "smd" (whatever its case) replaced by
\* "bin", or ".bin" appended.
OutFilename(name) ==
    IF ToLower(Suffix(name)) = "smd"
    THEN SubSeq(name, 1, Len(name) - 1) \o <<"bin">>
    ELSE name \o <<"bin">>

\* What an output file that exists before the run holds.
StaleOutput == <<222, 173, 190, 239>>

\* The count a short fread or a short fwrite of a block returns.
PartialCount == 4096

\* "return false" out of the loop: the function's buffers go out of scope.
ConvertFail ==
    /\ retval' = FALSE
    /\ pc' = "cv_ret"
    /\ smdBlockBytes' = <<>>
    /\ binBlockBytes' = <<>>

\* bool retval = true; the two block buffers are not initialised.
ConvertFilesEnter ==
    /\ pc = "cv_entry"
    /\ retval' = TRUE
    /\ smdBlockBytes' = UnwrittenBlock
    /\ binBlockBytes' = UnwrittenBlock
    /\ idx' = 1
    /\ pc' = "cv_file"
    /\ UNCHANGED <<mainVars, infoVars, fmt, tmpBytes, okToContinue, numBlocks,
                   blockI, inPos, openHandles, outDir, console, given>>

\* OnCollision where "stop" skips the file as "skip" does.
OnCollision_StopSkips(action) ==
    IF action = STOP THEN "skip"
    ELSE IF action = SKIP THEN "skip"
    ELSE "go"

\* What is done with a file whose output file exists, by the policy:
\* "stop" (return false), "skip" (continue) or "go" (overwrite).
OnCollision(action) ==
    IF action = STOP THEN "stop"
    ELSE IF action = SKIP THEN "skip"
    ELSE "go"

\* BadSize without the test of the block boundary.
BadSize_NoBoundaryTest(fileSize) ==
    fileSize < NUM_HEADER_BYTES + NUM_SMD_BLOCK_BYTES

\* Whether a file of this size is rejected: too small, or not ending on a
\* block boundary.
BadSize(fileSize) ==
    \/ fileSize < NUM_HEADER_BYTES + NUM_SMD_BLOCK_BYTES
    \/ (fileSize - NUM_HEADER_BYTES) % NUM_SMD_BLOCK_BYTES > 0

\* The output name, the check for an existing output file, the size checks.
ConvertBegin ==
    /\ pc = "cv_file"
    /\ idx <= Len(argsList)
    /\ LET out == OutFilename(argsList[idx])
           fileSize == FileSize(argsList[idx])
           collides == outDir[out] # NoFile
           said == IF collides
                   THEN Say("convertFiles", idx, "Output file already exists")
                   ELSE console
       IN  IF collides /\ OnCollision(fileAction) = "stop"
           THEN /\ console' = said
                /\ ConvertFail
                /\ UNCHANGED <<idx, numBlocks>>
           ELSE IF collides /\ OnCollision(fileAction) = "skip"
           THEN /\ console' = Append(said, [fn |-> "convertFiles",
                                            file |-> idx, msg |-> "skipping"])
                /\ idx' = idx + 1
                /\ UNCHANGED <<pc, retval, numBlocks, smdBlockBytes,
                               binBlockBytes>>
           ELSE IF BadSize(fileSize)
           THEN /\ console' =
                       Append(said,
                              [fn |-> "convertFiles", file |-> idx,
                               msg |-> IF fileSize < NUM_HEADER_BYTES
                                                     + NUM_SMD_BLOCK_BYTES
                                       THEN "Input file is too small"
                                       ELSE "not on 16KB block boundary"])
                /\ ConvertFail
                /\ UNCHANGED <<idx, numBlocks>>
           ELSE /\ console' = said
                /\ numBlocks' =
                       (fileSize - NUM_HEADER_BYTES) \div NUM_SMD_BLOCK_BYTES
                /\ pc' = "cv_open_in"
                /\ UNCHANGED <<idx, retval, smdBlockBytes, binBlockBytes>>
    /\ UNCHANGED <<mainVars, infoVars, fmt, tmpBytes, okToContinue, blockI,
                   inPos, openHandles, outDir, given>>

\* fopen(filename, "r")
ConvertOpenIn ==
    /\ pc = "cv_open_in"
    /\ IF Readable(argsList[idx])
       THEN /\ openHandles' = openHandles \cup {Handle(argsList[idx], "r")}
            /\ inPos' = 0
            /\ pc' = "cv_open_out"
            /\ UNCHANGED <<retval, console, smdBlockBytes, binBlockBytes>>
       ELSE /\ console' = Say("convertFiles", idx, "Failed to open INPUT file")
            /\ ConvertFail
            /\ UNCHANGED <<openHandles, inPos>>
    /\ UNCHANGED <<mainVars, infoVars, fmt, idx, tmpBytes, okToContinue,
                   numBlocks, blockI, outDir, given>>

\* fseek that leaves the stream where it is.
Fseek_Nowhere(pos, offset) == pos

\* fseek(stream, offset, SEEK_SET): the new position of the stream.
Fseek(pos, offset) == offset

\* The open streams after the output file failed to open, with the input
\* stream left open.
CloseInputOnly_Leak(handles, name) == handles

\* The open streams after the output file failed to open: fclose(inSMDFile).
CloseInputOnly(handles, name) == handles \ {Handle(name, "r")}

\* fopen(outFileFullPath, "w"), which may fail; fseek past the header.
ConvertOpenOut ==
    /\ pc = "cv_open_out"
    /\ \E opened \in BOOLEAN :
           IF opened
           THEN /\ openHandles' =
                       openHandles
                           \cup {Handle(OutFilename(argsList[idx]), "w")}
                /\ outDir' =
                       [outDir EXCEPT ![OutFilename(argsList[idx])] = <<>>]
                /\ inPos' = Fseek(inPos, NUM_HEADER_BYTES)
                /\ okToContinue' = TRUE
                /\ blockI' = 0
                /\ pc' = IF 0 < numBlocks THEN "cv_block" ELSE "cv_close"
                /\ UNCHANGED <<retval, console, smdBlockBytes, binBlockBytes>>
           ELSE /\ console' =
                       Say("convertFiles", idx, "Failed to open OUTPUT file")
                /\ openHandles' = CloseInputOnly(openHandles, argsList[idx])
                /\ ConvertFail
                /\ UNCHANGED <<outDir, inPos, okToContinue, blockI>>
    /\ UNCHANGED <<mainVars, infoVars, fmt, idx, tmpBytes, numBlocks, given>>

\* One iteration of the block loop: the two memsets, fread, decodeSMDBlock,
\* fwrite.  A read or a write may come up short (fault).
ConvertBlock ==
    /\ pc = "cv_block"
    /\ \E fault \in {"none", "read", "write"} :
           LET data == Data(argsList[idx])
               out == OutFilename(argsList[idx])
               full == FreadCount(data, inPos, NUM_SMD_BLOCK_BYTES)
               numBytesRead ==
                   IF fault = "read" /\ PartialCount < full
                   THEN PartialCount ELSE full
               smd == Fread(ZeroBlock, data, inPos, numBytesRead)
               bin == decodeSMDBlock(ZeroBlock, smd)
               numBytesWritten ==
                   IF fault = "write"
                   THEN PartialCount ELSE NUM_SMD_BLOCK_BYTES
           IN  /\ smdBlockBytes' = smd
               /\ inPos' = inPos + numBytesRead
               /\ IF numBytesRead < NUM_SMD_BLOCK_BYTES
                  THEN /\ console' = Say("convertFiles", idx,
                                         "Incomplete read of SMD block")
                       /\ binBlockBytes' = ZeroBlock
                       /\ okToContinue' = FALSE
                       /\ pc' = "cv_close"
                       /\ UNCHANGED <<outDir, blockI>>
                  ELSE /\ binBlockBytes' = bin
                       /\ outDir' =
                              [outDir EXCEPT
                                  ![out] = @ \o SubSeq(binBlockBytes', 1,
                                                        numBytesWritten)]
                       /\ IF numBytesWritten < NUM_SMD_BLOCK_BYTES
                          THEN /\ console' =
                                      Say("convertFiles", idx,
                                          "Incomplete write of BIN block")
                               /\ okToContinue' = FALSE
                               /\ pc' = "cv_close"
                               /\ UNCHANGED blockI
                          ELSE /\ blockI' = blockI + 1
                               /\ pc' = IF blockI + 1 < numBlocks
                                        THEN "cv_block" ELSE "cv_close"
                               /\ UNCHANGED <<console, okToContinue>>
    /\ UNCHANGED <<mainVars, infoVars, fmt, idx, retval, tmpBytes, numBlocks,
                   openHandles, given>>

\* fclose of both streams; then the next file, or "return false".
ConvertClose ==
    /\ pc = "cv_close"
    /\ openHandles' =
           openHandles \ {Handle(argsList[idx], "r"),
                          Handle(OutFilename(argsList[idx]), "w")}
    /\ IF okToContinue
       THEN /\ console' = Say("convertFiles", idx, "Conversion complete")
            /\ idx' = idx + 1
            /\ pc' = "cv_file"
            /\ UNCHANGED <<retval, smdBlockBytes, binBlockBytes>>
       ELSE /\ ConvertFail
            /\ UNCHANGED <<console, idx>>
    /\ UNCHANGED <<mainVars, infoVars, fmt, tmpBytes, okToContinue, numBlocks,
                   blockI, inPos, outDir, given>>

\* The end of the list: return retval.
ConvertReturn ==
    /\ pc = "cv_file"
    /\ idx > Len(argsList)
    /\ pc' = "cv_ret"
    /\ smdBlockBytes' = <<>>
    /\ binBlockBytes' = <<>>
    /\ UNCHANGED <<mainVars, infoVars, fmt, idx, retval, tmpBytes,
                   okToContinue, numBlocks, blockI, inPos, openHandles,
                   outDir, console, given>>

convertFiles ==
    \/ ConvertFilesEnter
    \/ ConvertBegin
    \/ ConvertOpenIn
    \/ ConvertOpenOut
    \/ ConvertBlock
    \/ ConvertClose
    \/ ConvertReturn

\* The files convertFiles is given here.
ConvertNames == {tiny, odd, one, two, locked}

\* The output directory in which the files of existing exist.
OutDirWith(names, existing) ==
    [o \in {OutFilename(n) : n \in names} |->
        IF o \in existing THEN StaleOutput ELSE NoFile]

\* convertFiles(filenameList, outdir, fileCollisionAction) is called; the
\* output file of one of the files may exist already.
InitConvert ==
    /\ pc = "cv_entry"
    /\ argsList \in FileLists(ConvertNames)
    /\ fileAction \in {STOP, WARN, SKIP}
    /\ \E existing \in
               {{}} \cup {{OutFilename(argsList[i])} : i \in 1..Len(argsList)} :
           outDir = OutDirWith(ConvertNames, existing)
    /\ fmt = UNK_FMT
    /\ checkOpt = UNSET
    /\ infoOpt = FALSE
    /\ NoLocals
    /\ tmpHeaderBytes = <<>>
    /\ likelyFmt = UNK_FMT
    /\ smdBlockBytes = <<>>
    /\ binBlockBytes = <<>>
    /\ given = <<>>

SpecConvert == InitConvert /\ [][convertFiles]_vars

-----------------------------------------------------------------------------
(* Any of the three functions, called on its own *)

InitCalls == InitCheck \/ InitInfo \/ InitConvert

SpecCalls == InitCalls /\ [][checkFormats \/ showInfoList \/ convertFiles]_vars

-----------------------------------------------------------------------------
(* main *)

\* parseFileCheckActionString: UNSET for a string that is not recognised.
parseFileCheckActionString(fileCheckActionString) ==
    IF fileCheckActionString = "stop" THEN STOP
    ELSE IF fileCheckActionString = "warn" THEN WARN
    ELSE IF fileCheckActionString = "skip" THEN SKIP
    ELSE UNSET

\* "return code" out of main.
Exit(code) ==
    /\ exitCode' = code
    /\ pc' = "m_exit"

\* "Do the action": showInfoList with --info, convertFiles without.
DoTheAction == pc' = IF infoOpt THEN "si_entry" ELSE "cv_entry"

\* AfterFailedCheck with "warn" stopping the run as "stop" does.
AfterFailedCheck_WarnStops(opt) ==
    IF opt = STOP \/ opt = WARN THEN "stop" ELSE "continue"

\* What main does when checkFormats returned false, by the check policy.
AfterFailedCheck(opt) ==
    IF opt = STOP THEN "stop" ELSE "continue"

\* The file list must not be empty, and the values of --checks and of
\* --file-collision must parse: else exit code 1.
MainParse ==
    /\ pc = "m_start"
    /\ LET co == parseFileCheckActionString(given.checkOpt)
           fa == parseFileCheckActionString(given.fileAction)
       IN  IF argsList = <<>>
           THEN /\ console' = Say("main", 0, "No files specified.")
                /\ Exit(1)
                /\ UNCHANGED <<checkOpt, fileAction>>
           ELSE IF co = UNSET
           THEN /\ console' = Say("main", 0, "Unrecognized checkOpt")
                /\ checkOpt' = co
                /\ Exit(1)
                /\ UNCHANGED fileAction
           ELSE IF fa = UNSET
           THEN /\ console' = Say("main", 0, "Unrecognized fileAction")
                /\ checkOpt' = co
                /\ fileAction' = fa
                /\ Exit(1)
           ELSE /\ checkOpt' = co
                /\ fileAction' = fa
                /\ pc' = "m_check"
                /\ UNCHANGED <<exitCode, console>>
    /\ UNCHANGED <<argsList, infoOpt, infoVars, convVars, fmt, idx, retval,
                   tmpBytes, okToContinue, inPos, openHandles, outDir, given>>

\* "Do SMD format checks, if allowed": checkFormats(SMD, argsList) unless the
\* check policy is "skip".
MainCheck ==
    /\ pc = "m_check"
    /\ IF checkOpt = SKIP
       THEN /\ console' = Say("main", 0, "Skipping SMD format checks...")
            /\ DoTheAction
            /\ UNCHANGED fmt
       ELSE /\ fmt' = SMD
            /\ pc' = "cf_entry"
            /\ UNCHANGED console
    /\ UNCHANGED <<mainVars, infoVars, convVars, idx, retval, tmpBytes,
                   okToContinue, inPos, openHandles, outDir, given>>

\* checkFormats has returned rc.
MainChecked ==
    /\ pc = "cf_ret"
    /\ IF retval = FALSE
       THEN IF AfterFailedCheck(checkOpt) = "stop"
            THEN /\ console' = Say("main", 0,
                                   "stopping due to failed SMD format check")
                 /\ Exit(2)
            ELSE /\ console' =
                        IF checkOpt = WARN
                        THEN Say("main", 0,
                                 "failed SMD format check; continuing...")
                        ELSE console
                 /\ DoTheAction
                 /\ UNCHANGED exitCode
       ELSE /\ DoTheAction
            /\ UNCHANGED <<exitCode, console>>
    /\ UNCHANGED <<argsList, checkOpt, fileAction, infoOpt, infoVars,
                   convVars, fmt, idx, retval, tmpBytes, okToContinue, inPos,
                   openHandles, outDir, given>>

\* showInfoList has returned: "return 0".
MainInfoDone ==
    /\ pc = "si_ret"
    /\ Exit(0)
    /\ UNCHANGED <<argsList, checkOpt, fileAction, infoOpt, infoVars,
                   convVars, fmt, idx, retval, tmpBytes, okToContinue, inPos,
                   openHandles, outDir, console, given>>

\* convertFiles has returned rc: exit code 2 if false, else 0.
MainConvertDone ==
    /\ pc = "cv_ret"
    /\ IF retval = FALSE
       THEN /\ console' = Say("main", 0,
                              "stopping due to error writing an output file")
            /\ Exit(2)
       ELSE /\ Exit(0)
            /\ UNCHANGED console
    /\ UNCHANGED <<argsList, checkOpt, fileAction, infoOpt, infoVars,
                   convVars, fmt, idx, retval, tmpBytes, okToContinue, inPos,
                   openHandles, outDir, given>>

main ==
    \/ MainParse
    \/ MainCheck
    \/ MainChecked
    \/ MainInfoDone
    \/ MainConvertDone

\* The values given to --checks and --file-collision here.
OptStrings == {"stop", "warn", "skip", "halt"}

\* The files named on the command line here.
MainNames == {gone, junk, one}

\* The program is started: a file list (possibly empty), the two option
\* strings, --info or not; the output file of one of the files may exist.
InitMain ==
    /\ pc = "m_start"
    /\ argsList \in {<<>>} \cup FileLists(MainNames)
    /\ given \in [checkOpt : OptStrings, fileAction : OptStrings]
    /\ infoOpt \in BOOLEAN
    /\ \E existing \in
               {{}} \cup {{OutFilename(argsList[i])} :
                              i \in {k \in 1..Len(argsList) : ~infoOpt}} :
           outDir = OutDirWith(MainNames, existing)
    /\ checkOpt = UNSET
    /\ fileAction = UNSET
    /\ fmt = UNK_FMT
    /\ NoLocals
    /\ tmpHeaderBytes = <<>>
    /\ likelyFmt = UNK_FMT
    /\ smdBlockBytes = <<>>
    /\ binBlockBytes = <<>>

Spec ==
    InitMain /\ [][main \/ checkFormats \/ showInfoList \/ convertFiles]_vars

-----------------------------------------------------------------------------
(* Claims about getLikelyFormat (SpecDetect) *)

HasSega(h) ==
    /\ At(h, 256) = 83
    /\ At(h, 257) = 69
    /\ At(h, 258) = 71
    /\ At(h, 259) = 65

HasSig(h) == At(h, 8) = 170 /\ At(h, 9) = 187

\* C1: for a 512-byte header, getLikelyFormat returns BIN when bytes
\* 0x100..0x103 are "SEGA" (whatever bytes 8 and 9 are), SMD when they are not
\* and byte 8 is 0xAA and byte 9 is 0xBB, and Unknown in every other case.
C1_DetectContract ==
    pc = "detected" =>
        /\ Len(tmpHeaderBytes) = 512
        /\ HasSega(tmpHeaderBytes) => likelyFmt = BIN
        /\ (~HasSega(tmpHeaderBytes) /\ HasSig(tmpHeaderBytes))
               => likelyFmt = SMD
        /\ (~HasSega(tmpHeaderBytes) /\ ~HasSig(tmpHeaderBytes))
               => likelyFmt = UNK_FMT

\* A header with both the marker and the signature was classified.
C1_Witness ==
    /\ pc = "detected"
    /\ HasSega(tmpHeaderBytes)
    /\ HasSig(tmpHeaderBytes)
    /\ likelyFmt = BIN

-----------------------------------------------------------------------------
(* Claims about decodeSMDBlock (SpecCodec) *)

\* binBlockBytes is what CodecDecode made of smdBlockBytes.
JustDecoded ==
    \/ pc = "encode" /\ given.as = SMD
    \/ pc = "codec_done" /\ given.as = BIN

\* The destination offsets the 8192 iterations write.
DecodeWrites ==
    {oddByte(i) : i \in 0..8191} \cup {evenByte(i) : i \in 0..8191}

\* C2: for a 16384-byte source block, decodeSMDBlock leaves dest[2i+1] =
\* src[i] and dest[2i] = src[i+8192] for every i in [0, 8192), and each of the
\* 16384 destination positions is written exactly once: none is left
\* unwritten, and the 2 * 8192 writes go to 16384 different offsets.
C2_DecodeInterleaves ==
    JustDecoded =>
        /\ Len(smdBlockBytes) = 16384
        /\ Len(binBlockBytes) = 16384
        /\ \A i \in 0..8191 :
               /\ At(binBlockBytes, 2 * i + 1) = At(smdBlockBytes, i)
               /\ At(binBlockBytes, 2 * i) = At(smdBlockBytes, i + 8192)
        /\ \A p \in 0..16383 : At(binBlockBytes, p) \in Byte
        /\ DecodeWrites = 0..16383

\* A block whose two halves differ was decoded.
C2_Witness ==
    /\ JustDecoded
    /\ given.as = SMD
    /\ At(smdBlockBytes, 1) # At(smdBlockBytes, 8193)
    /\ At(binBlockBytes, 3) = At(smdBlockBytes, 1)
    /\ At(binBlockBytes, 2) = At(smdBlockBytes, 8193)

\* C3: decodeSMDBlock is a bijection on blocks.  Encoding a BIN block with the
\* inverse transform and decoding the result gives the block back; and
\* decoding an SMD block and encoding the result gives the SMD block back, so
\* that two different SMD blocks never decode to the same BIN block.
C3_RoundTrip ==
    pc = "codec_done" =>
        /\ given.as = BIN => binBlockBytes = given.block
        /\ given.as = SMD => smdBlockBytes = given.block

\* A BIN block whose bytes are not all alike went through encode and decode.
C3_Witness ==
    /\ pc = "codec_done"
    /\ given.as = BIN
    /\ At(given.block, 0) # At(given.block, 1)
    /\ At(given.block, 1) # At(given.block, 256)
    /\ binBlockBytes = given.block

-----------------------------------------------------------------------------
(* Claims about checkFormats (SpecCheck) *)

\* The file can be opened, has 512 bytes, has 0xAA, 0xBB at offsets 8, 9 and
\* does not have "SEGA" at 0x100.
LooksLikeSmd(name) ==
    /\ Readable(name)
    /\ Len(Data(name)) >= 512
    /\ HasSig(Data(name))
    /\ ~HasSega(Data(name))

\* C4: checkFormats(SMD, files) returns true if and only if every file of the
\* list can be opened, yields at least 512 bytes, has byte 8 = 0xAA and byte
\* 9 = 0xBB and does not have "SEGA" at 0x100..0x103.
C4_SmdCheckResult ==
    (pc = "cf_ret" /\ fmt = SMD) =>
        (retval <=> \A i \in 1..Len(argsList) : LooksLikeSmd(argsList[i]))

\* A list whose first file has the signature and the marker, and whose
\* second file is a good SMD file, was checked: the result is false.
C4_Witness ==
    /\ pc = "cf_ret"
    /\ fmt = SMD
    /\ argsList = <<rom, one>>
    /\ retval = FALSE
    /\ Len(console) = 2
    /\ console[2].msg = "GOOD"

-----------------------------------------------------------------------------
(* Claims about showInfoList (SpecInfo) *)

\* The file is one showInfoList detects as SMD from its first 512 bytes.
DetectedSmd(name) ==
    /\ Readable(name)
    /\ Len(Data(name)) >= 512
    /\ ~HasSega(Data(name))
    /\ HasSig(Data(name))

\* The header fields of file i of the list were printed.
Printed(i) ==
    \E k \in 1..Len(console) : console[k].file = i /\ console[k].msg = "info"

\* C8: in showInfoList, a file detected as SMD of which fewer than 16384
\* bytes can be read after the 512-byte container header is skipped: none of
\* its header fields is printed.
C8_ShortBlockSkipped ==
    \A i \in 1..Len(argsList) :
        (DetectedSmd(argsList[i]) /\ Len(Data(argsList[i])) - 512 < 16384)
            => ~Printed(i)

\* C9: the fields showInfoList prints are those of the first 512 bytes of the
\* file when it is detected as BIN, and those of the first 512 bytes of
\* decodeSMDBlock applied to file bytes [512, 16896) when it is detected as
\* SMD.
C9_HeaderRegion ==
    \A k \in 1..Len(console) :
        console[k].msg = "info" =>
            LET data == Data(argsList[console[k].file])
            IN  IF HasSega(data)
                THEN console[k].fields = HeaderFields(SubSeq(data, 1, 512))
                ELSE /\ Len(data) >= 16896
                     /\ console[k].fields =
                            HeaderFields(
                                SubSeq(decodeSMDBlock(ZeroBlock,
                                           SubSeq(data, 513, 16896)),
                                       1, 512))

-----------------------------------------------------------------------------
(* Claims about convertFiles (SpecConvert) *)

\* convertFiles is at the head of its loop with a file whose output file
\* exists.
AtCollision ==
    /\ pc = "cv_file"
    /\ idx <= Len(argsList)
    /\ outDir[OutFilename(argsList[idx])] # NoFile

\* convertFiles is at the head of its loop with a file whose size is below
\* 16896 or is not 512 plus a multiple of 16384.
AtBadSize ==
    /\ pc = "cv_file"
    /\ idx <= Len(argsList)
    /\ \/ FileSize(argsList[idx]) < 16896
       \/ (FileSize(argsList[idx]) - 512) % 16384 # 0

\* The step returns false from convertFiles and writes nothing.
ReturnsFalse ==
    /\ pc' = "cv_ret"
    /\ retval' = FALSE
    /\ outDir' = outDir
    /\ idx' = idx

\* The step writes nothing and moves on to the next file of the list.
SkipsFile ==
    /\ pc' = "cv_file"
    /\ idx' = idx + 1
    /\ retval' = retval
    /\ outDir' = outDir

\* Once convertFiles has returned, no file is processed and nothing is
\* written.
ReturnedIsFinal ==
    pc = "cv_ret" =>
        (pc' = "cv_ret" /\ idx' = idx /\ outDir' = outDir
             /\ console' = console /\ retval' = retval)

\* The output file of the file at idx holds the conversion of that file and
\* nothing else: one decoded block for each 16384 bytes after the header.
OutputIsConversion ==
    LET data == Data(argsList[idx])
        out == outDir[OutFilename(argsList[idx])]
        n == (Len(data) - 512) \div 16384
    IN  /\ out # NoFile
        /\ Len(out) = 16384 * n
        /\ \A k \in 0..(n - 1) :
               SubSeq(out, 16384 * k + 1, 16384 * (k + 1)) =
                   decodeSMDBlock(UnwrittenBlock,
                                  SubSeq(data, 512 + 16384 * k + 1,
                                         512 + 16384 * (k + 1)))

\* The conversion of the file at idx has run to its end without an I/O error.
Converted == pc = "cv_close" /\ okToContinue

\* C5 as stated: when the output file of an input file exists, Stop returns
\* false at once and writes nothing, Skip writes nothing and goes on with the
\* next file, and under Warn the file is converted: it goes on to be opened.
C5_Original ==
    [][AtCollision =>
          /\ fileAction = STOP => ReturnsFalse
          /\ fileAction = SKIP => SkipsFile
          /\ fileAction = WARN => pc' = "cv_open_in"]_vars

\* C5, amended: when the output file of an input file exists, Stop returns
\* false at once, writes nothing and processes no later file; Skip writes
\* nothing for the file and goes on with the next file; Warn takes the file
\* on to the size checks, which reject it (return false) or pass it on to be
\* opened, and a file that is then converted without an I/O error leaves an
\* output file that holds the conversion and nothing of what it held before.
C5_CollisionPolicy ==
    [][/\ AtCollision =>
              /\ fileAction = STOP => ReturnsFalse
              /\ fileAction = SKIP => SkipsFile
              /\ fileAction = WARN =>
                     IF AtBadSize THEN ReturnsFalse
                     ELSE /\ pc' = "cv_open_in"
                          /\ idx' = idx
                          /\ outDir' = outDir
                          /\ retval' = retval
       /\ (Converted /\ fileAction = WARN) => OutputIsConversion
       /\ ReturnedIsFinal]_vars

\* Under Warn a file whose output file existed before the run was converted,
\* and the output file is not what it was.
C5_Witness ==
    /\ Converted
    /\ fileAction = WARN
    /\ \E k \in 1..Len(console) :
           /\ console[k].file = idx
           /\ console[k].msg = "Output file already exists"
    /\ Len(outDir[OutFilename(argsList[idx])]) = 16384
    /\ SubSeq(outDir[OutFilename(argsList[idx])], 1, 4) # StaleOutput

\* C6 as stated: a file whose size is below 16896, or is not 512 plus a
\* multiple of 16384, makes convertFiles return false at that file, under
\* each policy and whether or not its output file exists.
C6_Original == [][AtBadSize => ReturnsFalse]_vars

\* C6, amended: a file whose size is below 16896, or is not 512 plus a
\* multiple of 16384, makes convertFiles return false at that file, and no
\* later file is processed, unless its output file exists and the policy is
\* Skip: then the file is skipped without a look at its size and the next file
\* is processed.
C6_BadSizeIsFatal ==
    [][/\ AtBadSize =>
              IF AtCollision /\ fileAction = SKIP
              THEN SkipsFile
              ELSE ReturnsFalse
       /\ ReturnedIsFinal]_vars

\* A file that does not end on a block boundary, and whose output file
\* exists, was rejected under Warn; the file after it was not processed.
C6_Witness ==
    /\ pc = "cv_ret"
    /\ retval = FALSE
    /\ fileAction = WARN
    /\ idx = 1
    /\ Len(argsList) = 2
    /\ FileSize(argsList[1]) > 16896
    /\ Len(console) = 2
    /\ console[1].msg = "Output file already exists"
    /\ console[2].msg = "not on 16KB block boundary"
    /\ outDir[OutFilename(argsList[1])] = StaleOutput

\* C7: a file of size 512 + 16384 n (n >= 1) converted without an I/O error
\* leaves an output file of exactly n blocks, block k being decodeSMDBlock of
\* input bytes [512 + 16384 k, 512 + 16384 (k + 1)); the first 512 bytes of
\* the input contribute nothing.
C7_OutputBlocks == Converted => OutputIsConversion

\* A file of two blocks was converted, and the two output blocks differ.
C7_Witness ==
    /\ Converted
    /\ numBlocks = 2
    /\ Len(outDir[OutFilename(argsList[idx])]) = 32768
    /\ SubSeq(outDir[OutFilename(argsList[idx])], 1, 16384)
           # SubSeq(outDir[OutFilename(argsList[idx])], 16385, 32768)

-----------------------------------------------------------------------------
(* Claims about the three functions (SpecCalls) *)

\* A function is at the head of its loop, about to take the next file, or
\* has returned.
BetweenFiles ==
    pc \in {"cf_file", "cf_ret", "si_file", "si_ret", "cv_file", "cv_ret"}

\* C10: every stream checkFormats, showInfoList or convertFiles opens for a
\* file is closed before the function goes on to the next file or returns,
\* on every path: at each of these points no stream is open.
C10_NoOpenHandle == BetweenFiles => openHandles = {}

\* convertFiles returned because the output file could not be opened, after
\* it had opened the input file.
C10_Witness ==
    /\ pc = "cv_ret"
    /\ retval = FALSE
    /\ Len(console) >= 1
    /\ console[Len(console)].msg = "Failed to open OUTPUT file"
    /\ openHandles = {}

-----------------------------------------------------------------------------
(* C11: errors on a file do not stop checkFormats or showInfoList *)

\* The files a function has dealt with so far, in the order it did: each pass
\* of the loops of checkFormats and showInfoList ends with one line of output
\* for its file (a failure, a verdict, or the fields).
Visits(fn) ==
    LET lines == SelectSeq(console, LAMBDA e : e.fn = fn)
    IN  [k \in 1..Len(lines) |-> lines[k].file]

\* Files 1 .. n, each once, in list order.
InListOrder(visits, n) ==
    /\ Len(visits) = n
    /\ \A k \in 1..n : visits[k] = k

\* checkFormats is at its loop head or has returned, the format being one it
\* implements.
CheckBetweenFiles == pc \in {"cf_file", "cf_ret"} /\ fmt \in {SMD, BIN}

\* showInfoList is at its loop head or has returned.
InfoBetweenFiles == pc \in {"si_file", "si_ret"}

\* Some file of the list that is not the last one ran into an error.
ErrorBeforeLast(fn) ==
    \E k \in 1..Len(console) :
        /\ console[k].fn = fn
        /\ console[k].file < Len(argsList)
        /\ console[k].msg \notin {"GOOD", "info"}

\* C11: in checkFormats (format SMD or BIN) and in showInfoList, whenever the
\* loop is at its head the files before idx have all been visited, once each
\* and in list order, and the function returns only with idx past the end of
\* the list: so every file is visited, whatever happened to the ones before.
C11_EveryFileVisited ==
    /\ CheckBetweenFiles => InListOrder(Visits("checkFormats"), idx - 1)
    /\ InfoBetweenFiles => InListOrder(Visits("showInfoList"), idx - 1)
    /\ (CheckBetweenFiles /\ pc = "cf_ret") => idx = Len(argsList) + 1
    /\ pc = "si_ret" => idx = Len(argsList) + 1

\* checkFormats(SMD) has returned from a list whose first file could not be
\* opened and whose second file was nevertheless checked and found good.
C11_Witness ==
    /\ pc = "cf_ret"
    /\ fmt = SMD
    /\ argsList = <<gone, one>>
    /\ ErrorBeforeLast("checkFormats")
    /\ Visits("checkFormats") = <<1, 2>>
    /\ console[2].msg = "GOOD"

\* The same for showInfoList: an unrecognised file, then a ROM whose fields
\* are printed.
C11_WitnessInfo ==
    /\ pc = "si_ret"
    /\ argsList = <<junk, rom>>
    /\ ErrorBeforeLast("showInfoList")
    /\ console[2].msg = "info"

-----------------------------------------------------------------------------
(* C12: main and the check policy (Spec) *)

\* The SMD format check has been run and has failed for a file.
CheckHasFailed ==
    \E k \in 1..Len(console) :
        console[k].fn = "checkFormats" /\ console[k].msg # "GOOD"

\* checkFormats has just returned false to main.
CheckReturnedFalse == pc = "cf_ret" /\ retval = FALSE

\* Neither showInfoList nor convertFiles has been entered.
NoActionRun ==
    /\ pc \in {"cf_entry", "cf_file", "cf_read", "cf_ret", "m_exit"}
    /\ \A k \in 1..Len(console) :
           console[k].fn \notin {"showInfoList", "convertFiles"}

\* No output file has been created or written in this run.
NoOutputWritten ==
    \A o \in DOMAIN outDir : outDir[o] = NoFile \/ outDir[o] = StaleOutput

\* The files convertFiles has dealt with so far.
ConvertVisits ==
    {console[k].file : k \in {j \in 1..Len(console) :
                                  console[j].fn = "convertFiles"}}

\* The chosen action has been applied to the list the check was run on, the
\* files that failed the check included: showInfoList has visited every file;
\* convertFiles has taken the files in list order from the first one, and all
\* of them if the run ends with exit code 0.
ActionAppliedToWholeList ==
    IF infoOpt
    THEN InListOrder(Visits("showInfoList"), Len(argsList))
    ELSE /\ ConvertVisits # {}
         /\ \A i \in ConvertVisits : \A j \in 1..i : j \in ConvertVisits
         /\ exitCode = 0 => ConvertVisits = 1..Len(argsList)

\* What holds in every state of a run, by the check policy.
PolicyState ==
    /\ (checkOpt = STOP /\ CheckHasFailed) =>
           /\ NoActionRun
           /\ NoOutputWritten
           /\ pc = "m_exit" => exitCode = 2
    /\ (checkOpt = WARN /\ CheckHasFailed /\ pc = "m_exit") =>
           ActionAppliedToWholeList
    /\ checkOpt = SKIP =>
           /\ pc \notin {"cf_entry", "cf_file", "cf_read", "cf_ret"}
           /\ Visits("checkFormats") = <<>>

\* What main does next when the check has returned false, or is skipped.
PolicyStep ==
    /\ (CheckReturnedFalse /\ checkOpt = STOP) =>
           /\ pc' = "m_exit"
           /\ exitCode' = 2
           /\ outDir' = outDir
    /\ (CheckReturnedFalse /\ checkOpt = WARN) =>
           /\ pc' = IF infoOpt THEN "si_entry" ELSE "cv_entry"
           /\ exitCode' = exitCode
           /\ argsList' = argsList
    /\ (pc = "m_check" /\ checkOpt = SKIP) =>
           /\ pc' = IF infoOpt THEN "si_entry" ELSE "cv_entry"
           /\ Visits("checkFormats")' = <<>>

\* C12: in main, when the SMD format check fails for a file: under check
\* policy Stop the run ends with exit code 2 without showInfoList or
\* convertFiles having been entered and without an output file written;
\* under Warn the run goes on to the chosen action, which is applied to the
\* whole list, the files that failed the check included; under Skip
\* checkFormats is never entered.
C12_CheckPolicy == [][PolicyStep /\ PolicyState']_vars

\* Under Warn, a file that is not an SMD file failed the check and was
\* converted nevertheless, as was the file after it; exit code 0.
C12_Witness ==
    /\ pc = "m_exit"
    /\ checkOpt = WARN
    /\ ~infoOpt
    /\ argsList = <<junk, one>>
    /\ CheckHasFailed
    /\ exitCode = 0
    /\ Len(outDir[OutFilename(junk)]) = NUM_SMD_BLOCK_BYTES
    /\ Len(outDir[OutFilename(one)]) = NUM_SMD_BLOCK_BYTES

\* Under Stop, the failed check ended the run with exit code 2.
C12_WitnessStop ==
    /\ pc = "m_exit"
    /\ checkOpt = STOP
    /\ argsList = <<one, junk>>
    /\ CheckHasFailed
    /\ exitCode = 2

\* Under Skip, files that would fail the check were handed to showInfoList.
C12_WitnessSkip ==
    /\ pc = "m_exit"
    /\ checkOpt = SKIP
    /\ infoOpt
    /\ argsList = <<gone, junk>>
    /\ Visits("showInfoList") = <<1, 2>>

-----------------------------------------------------------------------------
(* C13: nothing is carried from one file to the next (SpecCalls) *)

\* What showInfoList prints of a file that is the only one of its list, its
\* buffers being as they are on entry: the fields, or "nothing" for a file it
\* skips.
ShownAlone(name) ==
    LET data == Data(name)
        header == Fread(ZeroBlock, data, 0, NUM_HEADER_BYTES)
        block == Fread(ZeroBlock, data, NUM_HEADER_BYTES, NUM_SMD_BLOCK_BYTES)
        blockRead == FreadCount(data, NUM_HEADER_BYTES, NUM_SMD_BLOCK_BYTES)
    IN  IF ~Readable(name) \/ Len(data) < NUM_HEADER_BYTES
        THEN "nothing"
        ELSE IF getLikelyFormat(header) = BIN
        THEN HeaderFields(header)
        ELSE IF getLikelyFormat(header) = UNK_FMT
                \/ blockRead < InfoBlockMinBytes
        THEN "nothing"
        ELSE HeaderFields(decodeSMDBlock(ZeroBlock, block))

\* What convertFiles writes of a file that is the only one of its list, when
\* no read and no write comes up short.
WrittenAlone(name) ==
    LET data == Data(name)
        RECURSIVE blocks(_)
        blocks(k) ==
            IF NUM_HEADER_BYTES + NUM_SMD_BLOCK_BYTES * (k + 1) > Len(data)
            THEN <<>>
            ELSE decodeSMDBlock(ZeroBlock,
                     Fread(ZeroBlock, data,
                           NUM_HEADER_BYTES + NUM_SMD_BLOCK_BYTES * k,
                           NUM_SMD_BLOCK_BYTES))
                 \o blocks(k + 1)
    IN  blocks(0)

IsPrefix(s, t) == Len(s) <= Len(t) /\ s = SubSeq(t, 1, Len(s))

\* Every set of fields showInfoList has printed is the one it prints of that
\* file alone.
InfoOwnContentsOnly ==
    \A k \in 1..Len(console) :
        (console[k].fn = "showInfoList" /\ console[k].msg = "info") =>
            console[k].fields = ShownAlone(argsList[console[k].file])

\* When convertFiles closes the output file of a file, what it has written is
\* what it writes of that file alone, or the start of it after a short read
\* or write.
ConvertOwnContentsOnly ==
    pc = "cv_close" =>
        LET out == outDir[OutFilename(argsList[idx])]
        IN  /\ IsPrefix(out, WrittenAlone(argsList[idx]))
            /\ okToContinue => out = WrittenAlone(argsList[idx])

\* C13: the header fields showInfoList prints for a file, and the bytes
\* convertFiles writes for a file, are those the same call produces for that
\* file alone, whichever files were processed before it.
C13_NoCarryOver == InfoOwnContentsOnly /\ ConvertOwnContentsOnly

=============================================================================
